---- MODULE Spec2Model ----
(***************************************************************************)
(* A model of McRouteHandleProvider (mcrouter/routes/                      *)
(* McRouteHandleProvider-inl.h): the pool cache, the access-point          *)
(* registry, the asynclog registry, and the operations makePool,           *)
(* createDestinationRoute, makePoolRoute, createAsynclogRoute and create.  *)
(***************************************************************************)
EXTENDS Integers, Sequences, FiniteSets, TLC

VARIABLES
  opts,             \* proxy_.router().opts() and the other inputs fixed per process
  poolDefs,         \* poolFactory_: pool name -> pool json
  pools_,           \* pool name -> destinations
  accessPoints_,    \* pool name -> access points
  asyncLogRoutes_,  \* asynclog name -> route handle
  destinationMap,   \* proxy_.destinationMap(): access point -> destination
  codecManager,     \* proxy_.router().getCodecManager() != nullptr
  last              \* the last call of create and what it returned

vars == <<opts, poolDefs, pools_, accessPoints_, asyncLogRoutes_, destinationMap, codecManager, last>>

(***************************************************************************)
(* folly::dynamic values, tagged with their type.                          *)
(***************************************************************************)
JStr(s) == [t |-> "string", v |-> s]
JInt(n) == [t |-> "int", v |-> n]
JBool(b) == [t |-> "bool", v |-> b]
JArr(s) == [t |-> "array", v |-> s]
JObj(f) == [t |-> "object", v |-> f]

isString(j) == j.t = "string"
isObject(j) == j.t = "object"
isArray(j) == j.t = "array"

\* json.get_ptr(k) != nullptr, and *json.get_ptr(k)
has(j, k) == k \in DOMAIN j.v
at(j, k) == j.v[k]

\* dynamic::erase(k) and dynamic::insert(k, x) on an object
erase(j, k) == JObj([f \in DOMAIN j.v \ {k} |-> j.v[f]])
insert(j, k, x) == JObj([f \in DOMAIN j.v \cup {k} |-> IF f = k THEN x ELSE j.v[f]])

EmptyObj == JObj([f \in {} |-> 0])

(***************************************************************************)
(* Outcomes of an operation that may throw: a value, or the message of the *)
(* exception as the sequence of its parts.                                 *)
(***************************************************************************)
Ok(x) == [ok |-> TRUE, v |-> x]
Err(m) == [ok |-> FALSE, msg |-> m]

SetMin(S) == CHOOSE x \in S : \A y \in S : x <= y

\* the first failure among a sequence of outcomes, in the order of evaluation
FirstErr(rs) == LET bad == {i \in 1..Len(rs) : ~rs[i].ok} IN
  IF bad = {} THEN Ok(TRUE) ELSE Err(rs[SetMin(bad)].msg)

Range(s) == {s[i] : i \in 1..Len(s)}

(***************************************************************************)
(* The typed getters of ParsingUtil.h: each fails on a value of another    *)
(* type, naming the field.                                                 *)
(***************************************************************************)
parseTimeout(j, name) == IF j.t = "int" /\ j.v > 0 THEN Ok(j.v)
  ELSE Err(<<name, " should be a positive number">>)

parseString(j, name) == IF isString(j) THEN Ok(j.v)
  ELSE Err(<<name, " should be a string">>)

parseBool(j, name) == IF j.t = "bool" THEN Ok(j.v)
  ELSE Err(<<name, " should be a bool">>)

parseInt(j, name, min, max) == IF j.t = "int" /\ j.v >= min /\ j.v <= max THEN Ok(j.v)
  ELSE Err(<<name, " should be an integer in range">>)

\* folly::AsciiCaseInsensitive on the protocol names the inputs use
AsciiLower(s) == CASE s = "THRIFT" -> "thrift"
  [] s = "Ascii" -> "ascii"
  [] s = "Caret" -> "caret"
  [] OTHER -> s

\* parseSecurityMech of SecurityOptions.h
parseSecurityMech(s) == CASE s = "plain" -> Ok("NONE")
  [] s = "ssl" -> Ok("TLS")
  [] s = "tls_to_plain" -> Ok("TLS_TO_PLAINTEXT")
  [] s = "tls13_fizz" -> Ok("TLS13_FIZZ")
  [] s = "ktls12" -> Ok("KTLS12")
  [] OTHER -> Err(<<"Invalid security mech: ", s>>)

(***************************************************************************)
(* AccessPoint::create(apString, defaultProtocol, defaultMech,             *)
(* portOverride, defaultCompressed): "host:port[:protocol[:mech]]".  The    *)
(* parts an endpoint string names itself win over the defaults; a port     *)
(* override that is not 0 wins over the port of the string; a string that  *)
(* is no endpoint gives nullptr.                                           *)
(***************************************************************************)
ApParts(s) == CASE s = "local:1" -> <<"local", 1, "", "">>
  [] s = "remote:1" -> <<"remote", 1, "", "">>
  [] s = "remote:1:ascii" -> <<"remote", 1, "ascii", "">>
  [] s = "local:1:thrift" -> <<"local", 1, "thrift", "">>
  [] OTHER -> <<>>

ProtocolOf(s) == CASE s = "ascii" -> "mc_ascii_protocol"
  [] s = "caret" -> "mc_caret_protocol"
  [] s = "thrift" -> "mc_thrift_protocol"
  [] OTHER -> "mc_unknown_protocol"

NullAp == [null |-> TRUE]

AccessPointCreate(s, protocol, mech, port, compressed) == LET parts == ApParts(s) IN
  IF parts = <<>> THEN NullAp
  ELSE [host |-> parts[1],
        port |-> IF port # 0 THEN port ELSE parts[2],
        protocol |-> IF parts[3] = "" THEN protocol ELSE ProtocolOf(parts[3]),
        mech |-> IF parts[4] = "" THEN mech ELSE parseSecurityMech(parts[4]).v,
        compressed |-> compressed]

\* isInLocalDatacenter(host)
isInLocalDatacenter(host) == host = "local"

\* proxy_.router().getStatsEnabledPoolIndex(name)
getStatsEnabledPoolIndex(name) == IF name = "A" THEN 0 ELSE -1

(***************************************************************************)
(* makePool, lines 104-155: region and cluster, and the operation timeout. *)
(***************************************************************************)
\* lines 105-127: a region or cluster that is no string is logged and left empty
StringOrEmpty(json, k) == IF has(json, k) /\ isString(at(json, k)) THEN at(json, k).v ELSE ""

\* a tier selection in which a tier whose value is zero gives way to the next
TierTimeoutFallingThrough(timeout, region, cluster) ==
  IF region # "" /\ cluster # ""
  THEN IF region = opts.region /\ cluster = opts.cluster /\ opts.within_cluster_timeout_ms # 0
       THEN opts.within_cluster_timeout_ms
       ELSE IF region = opts.region /\ opts.cross_cluster_timeout_ms # 0
       THEN opts.cross_cluster_timeout_ms
       ELSE IF opts.cross_region_timeout_ms # 0 THEN opts.cross_region_timeout_ms
       ELSE timeout
  ELSE timeout

\* lines 140-155
TierTimeout(timeout, region, cluster) ==
  IF region # "" /\ cluster # ""
  THEN IF region = opts.region /\ cluster = opts.cluster
       THEN IF opts.within_cluster_timeout_ms # 0 THEN opts.within_cluster_timeout_ms ELSE timeout
       ELSE IF region = opts.region
       THEN IF opts.cross_cluster_timeout_ms # 0 THEN opts.cross_cluster_timeout_ms ELSE timeout
       ELSE IF opts.cross_region_timeout_ms # 0 THEN opts.cross_region_timeout_ms ELSE timeout
  ELSE timeout

\* lines 130-133
ServerTimeout(json) == IF has(json, "server_timeout")
  THEN parseTimeout(at(json, "server_timeout"), "server_timeout")
  ELSE Ok(opts.server_timeout_ms)

\* lines 135-138
ConnectTimeout(json, timeout) == IF has(json, "connect_timeout")
  THEN parseTimeout(at(json, "connect_timeout"), "connect_timeout")
  ELSE timeout

\* lines 157-169
Protocol(json) == IF has(json, "protocol")
  THEN LET str == parseString(at(json, "protocol"), "protocol") IN
       IF ~str.ok THEN str
       ELSE IF AsciiLower(str.v) = "ascii" THEN Ok("mc_ascii_protocol")
       ELSE IF AsciiLower(str.v) = "caret" THEN Ok("mc_caret_protocol")
       ELSE IF AsciiLower(str.v) = "thrift" THEN Ok("mc_thrift_protocol")
       ELSE Err(<<"Unknown protocol '", str.v, "'">>)
  ELSE Ok("mc_ascii_protocol")

\* lines 171-179
BoolField(json, k, default) == IF has(json, k) THEN parseBool(at(json, k), k) ELSE Ok(default)

\* lines 181-191
Qos(json) == IF has(json, "qos")
  THEN LET jQos == at(json, "qos") IN
       IF ~isObject(jQos) THEN Err(<<"qos must be an object.">>)
       ELSE LET class == IF has(jQos, "class") THEN parseInt(at(jQos, "class"), "qos.class", 0, 4)
                         ELSE Ok(opts.default_qos_class)
                path == IF has(jQos, "path") THEN parseInt(at(jQos, "path"), "qos.path", 0, 3)
                        ELSE Ok(opts.default_qos_path)
            IN IF ~class.ok THEN class ELSE IF ~path.ok THEN path
               ELSE Ok([class |-> class.v, path |-> path.v])
  ELSE Ok([class |-> opts.default_qos_class, path |-> opts.default_qos_path])

\* lines 201-210: the base mechanism
BaseMech(json) == IF has(json, "security_mech")
  THEN LET mechStr == parseString(at(json, "security_mech"), "security_mech") IN
       IF mechStr.ok THEN parseSecurityMech(mechStr.v) ELSE mechStr
  ELSE IF has(json, "use_ssl")
  THEN LET useSsl == parseBool(at(json, "use_ssl"), "use_ssl") IN
       IF ~useSsl.ok THEN useSsl ELSE IF useSsl.v THEN Ok("TLS") ELSE Ok("NONE")
  ELSE Ok("NONE")

\* lines 212-220: folly::Optional<SecurityMech>, "unset" when it has no value
OptMech(json, k) == IF has(json, k)
  THEN LET mechStr == parseString(at(json, k), k) IN
       IF mechStr.ok THEN parseSecurityMech(mechStr.v) ELSE mechStr
  ELSE Ok("unset")

\* lines 222-232: a port in 1..65535, 0 when it is not given
OptPort(json, k) == IF has(json, k) THEN parseInt(at(json, k), k, 1, 65535) ELSE Ok(0)

\* lines 193-233
Security(json) == IF opts.enableSecurityConfig
  THEN LET mech == BaseMech(json)
           withinDcMech == OptMech(json, "security_mech_within_dc")
           crossDcMech == OptMech(json, "security_mech_cross_dc")
           withinDcPort == OptPort(json, "port_override_within_dc")
           crossDcPort == OptPort(json, "port_override_cross_dc")
           port == OptPort(json, "port_override")
           first == FirstErr(<<mech, withinDcMech, crossDcMech, withinDcPort, crossDcPort, port>>)
       IN IF ~first.ok THEN first
          ELSE Ok([mech |-> mech.v, withinDcMech |-> withinDcMech.v, crossDcMech |-> crossDcMech.v,
                   withinDcPort |-> withinDcPort.v, crossDcPort |-> crossDcPort.v, port |-> port.v])
  ELSE Ok([mech |-> "NONE", withinDcMech |-> "unset", crossDcMech |-> "unset",
           withinDcPort |-> 0, crossDcPort |-> 0, port |-> 0])

\* the checks of servers and hostnames without the comparison of their sizes
ServersCheckNoSize(json) ==
  IF ~has(json, "servers") THEN Err(<<"servers not found">>)
  ELSE IF ~isArray(at(json, "servers")) THEN Err(<<"servers is not an array">>)
  ELSE IF has(json, "hostnames") /\ ~isArray(at(json, "hostnames"))
  THEN Err(<<"hostnames is not an array">>)
  ELSE Ok(at(json, "servers").v)

\* lines 234-246
ServersCheck(json) ==
  IF ~has(json, "servers") THEN Err(<<"servers not found">>)
  ELSE IF ~isArray(at(json, "servers")) THEN Err(<<"servers is not an array">>)
  ELSE IF has(json, "hostnames") /\ ~isArray(at(json, "hostnames"))
  THEN Err(<<"hostnames is not an array">>)
  ELSE IF has(json, "hostnames") /\ Len(at(json, "hostnames").v) # Len(at(json, "servers").v)
  THEN Err(<<"hostnames expected to be of the same size as servers">>)
  ELSE Ok(at(json, "servers").v)

(***************************************************************************)
(* Route handles.  A handle is the record of what it was built from;       *)
(* nullptr is a handle of its own.                                         *)
(***************************************************************************)
nullptr == [k |-> "nullptr"]

\* RouterInfo::buildRouteMap(): the factory functions by type name.  makeFoo
\* yields nullptr; the map also holds an entry under a built-in name.
RouteMapTypes == {"NullRoute", "ErrorRoute", "Foo", "Both", "PoolRoute"}

factoryFunc(type, json) == IF type = "Foo" THEN nullptr
  ELSE [k |-> type, json |-> json, by |-> "routeMap"]

\* the route map without the check of lines 485-486
uncheckedRouteMap(type, json) == Ok(factoryFunc(type, json))

\* lines 478-489: every factory function wrapped with the nullptr check
checkedRouteMap(type, json) == LET rh == factoryFunc(type, json) IN
  IF rh # nullptr THEN Ok(rh) ELSE Err(<<"make", type, " returned nullptr">>)

\* extraProvider_->tryCreate(factory, type, json): empty for a type it does not know
ExtraTypes == {"ExtraRoute", "Both", "FailoverRoute"}

tryCreate(type, json) == IF type \in ExtraTypes
  THEN <<[k |-> type, json |-> json, by |-> "extraProvider"]>>
  ELSE <<>>

\* factory.create(server) of RouteHandleFactory for a server given as an object:
\* the one handle built for the object's type, or the failure of building it
factoryCreate(json) ==
  IF ~has(json, "type") \/ ~isString(at(json, "type")) THEN Err(<<"type is not a string">>)
  ELSE LET type == at(json, "type").v IN
       IF type \in RouteMapTypes THEN checkedRouteMap(type, json)
       ELSE IF tryCreate(type, json) # <<>> THEN Ok(tryCreate(type, json)[1])
       ELSE Err(<<"Unknown RouteHandle: ", type>>)

(***************************************************************************)
(* createDestinationRoute, lines 350-374.                                  *)
(***************************************************************************)
Min2(a, b) == IF a <= b THEN a ELSE b

\* ProxyDestinationMap::emplace<Transport>(ap, timeout, qosClass, qosPath) and
\* ProxyDestination::updateShortestTimeout(connectTimeout, timeout): the
\* destination of an access point is created once and shared after that
emplaceDestination(dm, transport, ap, timeout, connectTimeout, qosClass, qosPath) ==
  LET old == IF ap \in DOMAIN dm THEN dm[ap]
             ELSE [transport |-> transport, timeout |-> timeout, qosClass |-> qosClass,
                   qosPath |-> qosPath, shortestConnectTimeout |-> connectTimeout,
                   shortestWriteTimeout |-> timeout]
      new == [old EXCEPT !.shortestConnectTimeout = Min2(@, connectTimeout),
                         !.shortestWriteTimeout = Min2(@, timeout)]
  IN [a \in DOMAIN dm \cup {ap} |-> IF a = ap THEN new ELSE dm[a]]

\* makeDestinationRoute<RouterInfo, Transport>(pdstn, poolName, indexInPool,
\* poolStatIndex, timeout, keepRoutingPrefix)
makeDestinationRoute(transport, pdstn, poolName, indexInPool, poolStatIndex, timeout, keepRoutingPrefix) ==
  [k |-> "DestinationRoute", transport |-> transport, pdstn |-> pdstn, poolName |-> poolName,
   indexInPool |-> indexInPool, poolStatIndex |-> poolStatIndex, timeout |-> timeout,
   keepRoutingPrefix |-> keepRoutingPrefix]

(***************************************************************************)
(* makePool, lines 252-341: one server entry.                              *)
(***************************************************************************)
\* lines 267-285: the within-DC or cross-DC overrides of mechanism and port
ApplyDcOverrides(ap, sec) ==
  IF sec.withinDcMech # "unset" \/ sec.crossDcMech # "unset" \/ sec.withinDcPort # 0 \/ sec.crossDcPort # 0
  THEN IF isInLocalDatacenter(ap.host)
       THEN [ap EXCEPT !.mech = IF sec.withinDcMech # "unset" THEN sec.withinDcMech ELSE @,
                       !.port = IF sec.withinDcPort # 0 THEN sec.withinDcPort ELSE @]
       ELSE [ap EXCEPT !.mech = IF sec.crossDcMech # "unset" THEN sec.crossDcMech ELSE @,
                       !.port = IF sec.crossDcPort # 0 THEN sec.crossDcPort ELSE @]
  ELSE ap

\* lines 287-298: initCompression succeeds or not as the environment has it
NeedsInitCompression(ap, cm) == ap.compressed /\ ~cm

ApplyCompression(ap, cm) ==
  IF NeedsInitCompression(ap, cm) /\ ~opts.initCompressionOk
  THEN [ap EXCEPT !.compressed = FALSE] ELSE ap

CodecManagerAfter(ap, cm) == cm \/ (NeedsInitCompression(ap, cm) /\ opts.initCompressionOk)

\* lines 300-305: accessPoints_[name].push_back(ap)
RegisterAccessPoint(aps, name, ap) ==
  [n \in DOMAIN aps \cup {name} |-> IF n = name
     THEN (IF name \in DOMAIN aps THEN aps[name] ELSE <<>>) \o <<ap>> ELSE aps[n]]

\* a thrift check that lets every mechanism through
ThriftMechAny(mech) == mech \in {"NONE", "TLS", "TLS_TO_PLAINTEXT", "TLS13_FIZZ", "KTLS12"}

\* lines 310-312
ThriftMechAllowed(mech) == mech \in {"NONE", "TLS", "TLS_TO_PLAINTEXT"}

\* lines 308, 317, 329
TransportOf(ap) == IF ap.protocol = "mc_thrift_protocol" THEN "ThriftTransport" ELSE "AsyncMcClient"

\* a server object whose handle is put in front of the destinations
ServerStepObjectInFront(name, i, acc, rh) ==
  IF rh.ok THEN [acc EXCEPT !.destinations = <<rh.v>> \o @,
                            !.log = Append(@, <<"factory.create", name, i>>)]
  ELSE [acc EXCEPT !.ok = FALSE, !.msg = rh.msg,
                   !.log = Append(@, <<"factory.create", name, i>>)]

\* lines 258-261: a server given as an object, rh what factory.create gave for it
ServerStepObject(name, i, acc, rh) ==
  IF rh.ok THEN [acc EXCEPT !.destinations = Append(@, rh.v),
                            !.log = Append(@, <<"factory.create", name, i>>)]
  ELSE [acc EXCEPT !.ok = FALSE, !.msg = rh.msg,
                   !.log = Append(@, <<"factory.create", name, i>>)]

\* lines 300-340: ap registered under the pool name, then the destination of
\* its transport unless the thrift check throws
ServerStepDestination(name, cfg, i, acc, ap, cm) ==
  IF ap.protocol = "mc_thrift_protocol" /\ ~ThriftMechAllowed(ap.mech)
  THEN [acc EXCEPT !.ok = FALSE,
          !.msg = <<"Security mechanism must be 'plain', 'tls' or 'tls_to_plain' for ThriftTransport, got ", ap.mech>>,
          !.accessPoints_ = RegisterAccessPoint(@, name, ap), !.codecManager = cm,
          !.log = @ \o <<(<<"AccessPoint::create", name, i>>), (<<"accessPoints_.push_back", name, i>>)>>]
  ELSE [acc EXCEPT
          !.destinations = Append(@, makeDestinationRoute(TransportOf(ap), ap, name, i,
                cfg.poolStatIndex, cfg.timeout, cfg.keepRoutingPrefix)),
          !.destinationMap = emplaceDestination(@, TransportOf(ap), ap, cfg.timeout,
                cfg.connectTimeout, cfg.qosClass, cfg.qosPath),
          !.accessPoints_ = RegisterAccessPoint(@, name, ap), !.codecManager = cm,
          !.log = @ \o <<(<<"AccessPoint::create", name, i>>), (<<"accessPoints_.push_back", name, i>>),
                         (<<"createDestinationRoute", name, i>>)>>]

\* lines 263-298: a server given as a string, ap0 what AccessPoint::create gave
ServerStepString(name, cfg, server, i, acc, ap0) ==
  IF ap0 = NullAp
  THEN [acc EXCEPT !.ok = FALSE, !.msg = <<"invalid server ", server.v>>,
                   !.log = Append(@, <<"AccessPoint::create", name, i>>)]
  ELSE ServerStepDestination(name, cfg, i, acc,
         ApplyCompression(ApplyDcOverrides(ap0, cfg.sec), acc.codecManager),
         CodecManagerAfter(ApplyDcOverrides(ap0, cfg.sec), acc.codecManager))

\* One pass of the loop body for server i (counted from 0) over the state acc.
ServerStep(name, cfg, server, i, acc) ==
  IF ~(isString(server) \/ isObject(server))
  THEN [acc EXCEPT !.ok = FALSE, !.msg = <<"server is not a string/object">>]
  ELSE IF isObject(server) THEN ServerStepObject(name, i, acc, factoryCreate(server))
  ELSE ServerStepString(name, cfg, server, i, acc,
         AccessPointCreate(server.v, cfg.protocol, cfg.sec.mech, cfg.sec.port, cfg.enableCompression))

\* lines 252-341: the loop, which ends at the first server that throws
RECURSIVE ServersLoop(_, _, _, _, _)
ServersLoop(name, cfg, jservers, i, acc) ==
  IF i >= Len(jservers) \/ ~acc.ok THEN acc
  ELSE ServersLoop(name, cfg, jservers, i + 1, ServerStep(name, cfg, jservers[i + 1], i, acc))

(***************************************************************************)
(* makePool, lines 91-348.  st is the state of the provider and the proxy; *)
(* the result carries the state the call leaves, also when it throws, and  *)
(* the log of what the call did.                                           *)
(***************************************************************************)
\* lines 105-127: MC_LOG_FAILURE for a region or cluster that is no string
RegionClusterLog(name, json) ==
  (IF has(json, "region") /\ ~isString(at(json, "region"))
   THEN <<(<<"MC_LOG_FAILURE region", name, 0>>)>> ELSE <<>>)
  \o (IF has(json, "cluster") /\ ~isString(at(json, "cluster"))
      THEN <<(<<"MC_LOG_FAILURE cluster", name, 0>>)>> ELSE <<>>)

\* lines 129-248: what the pool sets for all of its servers, from the outcomes of
\* reading each field in the order the code reads them
PoolSettingsFrom(name, json, timeout, connectTimeout, protocol, enableCompression, keepRoutingPrefix, qos, sec, jservers) ==
  IF ~FirstErr(<<timeout, connectTimeout, protocol, enableCompression, keepRoutingPrefix,
                 qos, sec, jservers>>).ok
  THEN FirstErr(<<timeout, connectTimeout, protocol, enableCompression, keepRoutingPrefix,
                  qos, sec, jservers>>)
  ELSE Ok([timeout |-> TierTimeout(timeout.v, StringOrEmpty(json, "region"),
                                   StringOrEmpty(json, "cluster")),
           connectTimeout |-> connectTimeout.v,
           protocol |-> protocol.v,
           enableCompression |-> enableCompression.v,
           keepRoutingPrefix |-> keepRoutingPrefix.v,
           qosClass |-> qos.v.class, qosPath |-> qos.v.path,
           sec |-> sec.v,
           jservers |-> jservers.v,
           poolStatIndex |-> getStatsEnabledPoolIndex(name)])

PoolSettings(name, json) ==
  PoolSettingsFrom(name, json, ServerTimeout(json), ConnectTimeout(json, ServerTimeout(json)),
                   Protocol(json), BoolField(json, "enable_compression", opts.enable_compression),
                   BoolField(json, "keep_routing_prefix", FALSE), Qos(json), Security(json),
                   ServersCheck(json))

\* line 346: throwLogic("Pool {}: {}", name, e.what())
PoolMsg(name, msg) == <<"Pool ", name, ": ">> \o msg

\* lines 343-347: the loop done, the pool is cached, or the failure is thrown on
makePoolFinish(st, name, acc) ==
  IF ~acc.ok
  THEN [ok |-> FALSE, v |-> <<>>, msg |-> PoolMsg(name, acc.msg),
        st |-> [st EXCEPT !.accessPoints_ = acc.accessPoints_,
                          !.destinationMap = acc.destinationMap,
                          !.codecManager = acc.codecManager],
        log |-> acc.log]
  ELSE [ok |-> TRUE, v |-> acc.destinations, msg |-> <<>>,
        st |-> [st EXCEPT !.accessPoints_ = acc.accessPoints_,
                          !.destinationMap = acc.destinationMap,
                          !.codecManager = acc.codecManager,
                          !.pools_ = [n \in DOMAIN st.pools_ \cup {name} |->
                                        IF n = name THEN acc.destinations ELSE st.pools_[n]]],
        log |-> Append(acc.log, <<"pools_.emplace", name, 0>>)]

\* lines 101-341, cfg what lines 129-248 gave
makePoolBuild(st, name, json, cfg) ==
  IF ~cfg.ok
  THEN [ok |-> FALSE, v |-> <<>>, msg |-> PoolMsg(name, cfg.msg), st |-> st,
        log |-> <<(<<"read json", name, 0>>)>> \o RegionClusterLog(name, json)]
  ELSE makePoolFinish(st, name,
         ServersLoop(name, cfg.v, cfg.v.jservers, 0,
            [ok |-> TRUE, msg |-> <<>>, destinations |-> <<>>,
             accessPoints_ |-> st.accessPoints_,
             destinationMap |-> st.destinationMap,
             codecManager |-> st.codecManager,
             log |-> <<(<<"read json", name, 0>>)>> \o RegionClusterLog(name, json)]))

\* makePool without the lookup of lines 96-99
makePoolUncached(st, jpool) ==
  makePoolBuild(st, jpool.name, jpool.json, PoolSettings(jpool.name, jpool.json))

\* lines 96-99: the pool of a cached name is returned as it is
makePool(st, jpool) ==
  IF jpool.name \in DOMAIN st.pools_
  THEN [ok |-> TRUE, v |-> st.pools_[jpool.name], msg |-> <<>>, st |-> st, log |-> <<>>]
  ELSE makePoolBuild(st, jpool.name, jpool.json, PoolSettings(jpool.name, jpool.json))

(***************************************************************************)
(* The collaborators of makePoolRoute and create.                          *)
(***************************************************************************)
\* poolFactory_.parsePool(json): a pool is named by a string or given as an
\* object with a name; the first definition of a name is the pool of that name
parsePool(j) ==
  IF isString(j)
  THEN IF j.v \in DOMAIN poolDefs THEN Ok([name |-> j.v, json |-> poolDefs[j.v]])
       ELSE Err(<<"Pool not found: ", j.v>>)
  ELSE IF isObject(j) /\ has(j, "name") /\ isString(at(j, "name"))
  THEN LET name == at(j, "name").v IN
       Ok([name |-> name, json |-> IF name \in DOMAIN poolDefs THEN poolDefs[name] ELSE j])
  ELSE Err(<<"Pool should be a string or an object with a name">>)

\* wrapPoolDestinations of PoolRouteUtils.h: the extra provider may wrap each
\* destination
wrapPoolDestinations(destinations) == IF opts.wrapDestinations
  THEN [i \in 1..Len(destinations) |-> [k |-> "WrappedRoute", child |-> destinations[i]]]
  ELSE destinations

\* createHashRoute(json, destinations, threadId) of HashRouteFactory.h
HashFuncs == {"Ch3", "Crc32", "WeightedCh3"}

createHashRoute(jhash, destinations) ==
  IF has(jhash, "hash_func") /\ ~(isString(at(jhash, "hash_func")) /\ at(jhash, "hash_func").v \in HashFuncs)
  THEN Err(<<"Unknown hash function">>)
  ELSE Ok([k |-> "HashRoute", json |-> jhash, children |-> destinations])

\* RateLimiter(json) and ShardSplitter(json) take an object
RateLimiter(jrates) == IF isObject(jrates) THEN Ok(jrates) ELSE Err(<<"rates is not an object">>)

ShardSplitter(jsplits) == IF isObject(jsplits) THEN Ok(jsplits)
  ELSE Err(<<"shard_splits is not an object">>)

createRateLimitRoute(route, rates) == [k |-> "RateLimitRoute", child |-> route, rates |-> rates]

makeShardSplitRoute(route, splits) == [k |-> "ShardSplitRoute", child |-> route, splits |-> splits]

makeAsynclogRoute(target, asynclogName) ==
  [k |-> "AsynclogRoute", child |-> target, asynclogName |-> asynclogName]

\* makeFailoverRoute(factory, json, extraProvider) of FailoverRoute.h
makeFailoverRoute(json) == [k |-> "FailoverRoute", json |-> json]

\* makeShadowRoutes(factory, json, proxy, extraProvider) of ShadowRoute.h: one
\* handle for each child
makeShadowRoutes(json) == IF has(json, "children") /\ isArray(at(json, "children"))
  THEN Ok([i \in 1..Len(at(json, "children").v) |->
            [k |-> "ShadowRoute", child |-> at(json, "children").v[i]]])
  ELSE Err(<<"ShadowRoute: children not found">>)

(***************************************************************************)
(* createAsynclogRoute, lines 79-89.  emplace keeps the entry a name       *)
(* already has.                                                            *)
(***************************************************************************)
AsynclogTarget(target, asynclogName) ==
  IF ~opts.asynclog_disable THEN makeAsynclogRoute(target, asynclogName) ELSE target

\* a registry whose insertion replaces the entry a name already has
emplaceOverwriting(routes, asynclogName, target) ==
  [n \in DOMAIN routes \cup {asynclogName} |-> IF n = asynclogName THEN target ELSE routes[n]]

emplaceAsyncLog(routes, asynclogName, target) ==
  IF asynclogName \in DOMAIN routes THEN routes
  ELSE [n \in DOMAIN routes \cup {asynclogName} |-> IF n = asynclogName THEN target ELSE routes[n]]

createAsynclogRoute(st, target, asynclogName) ==
  [route |-> AsynclogTarget(target, asynclogName),
   st |-> [st EXCEPT !.asyncLogRoutes_ =
             emplaceAsyncLog(@, asynclogName, AsynclogTarget(target, asynclogName))]]

(***************************************************************************)
(* makePoolRoute, lines 376-459.                                           *)
(***************************************************************************)
\* lines 404-428: the pool's weights and tags, then the route's hash over them
HashWithWeights(poolJson, json) ==
  LET h0 == IF has(poolJson, "weights")
            THEN JObj([hash_func |-> JStr("WeightedCh3"), weights |-> at(poolJson, "weights")])
            ELSE EmptyObj
      h1 == IF has(poolJson, "tags") THEN insert(h0, "tags", at(poolJson, "tags")) ELSE h0
  IN IF isObject(json) /\ has(json, "hash")
     THEN LET jhash == at(json, "hash") IN
          IF ~(isObject(jhash) \/ isString(jhash)) THEN Err(<<"hash is not object/string">>)
          ELSE IF isString(jhash) THEN Ok(insert(h1, "hash_func", jhash))
          ELSE Ok(JObj([f \in DOMAIN h1.v \cup DOMAIN jhash.v |->
                         IF f \in DOMAIN jhash.v THEN jhash.v[f] ELSE h1.v[f]]))
     ELSE Ok(h1)

\* lines 435-437
WithRateLimit(route, json) == IF isObject(json) /\ has(json, "rates")
  THEN LET r == RateLimiter(at(json, "rates")) IN
       IF r.ok THEN Ok(createRateLimitRoute(route, r.v)) ELSE r
  ELSE Ok(route)

\* a composition that puts the shard split beneath the rate limit
WithShardSplitBeneath(route, json) ==
  IF isObject(json) /\ ~opts.disable_shard_split_route /\ has(json, "shard_splits")
  THEN IF ~isObject(at(json, "shard_splits")) THEN Err(<<"shard_splits is not an object">>)
       ELSE IF route.k = "RateLimitRoute"
       THEN Ok([route EXCEPT !.child = [k |-> "ShardSplitRoute", child |-> route.child,
                                        splits |-> at(json, "shard_splits")]])
       ELSE Ok([k |-> "ShardSplitRoute", child |-> route, splits |-> at(json, "shard_splits")])
  ELSE Ok(route)

\* lines 438-443
WithShardSplit(route, json) ==
  IF isObject(json) /\ ~opts.disable_shard_split_route /\ has(json, "shard_splits")
  THEN LET s == ShardSplitter(at(json, "shard_splits")) IN
       IF s.ok THEN Ok(makeShardSplitRoute(route, s.v)) ELSE s
  ELSE Ok(route)

\* lines 433, 444-446
NeedAsynclog(json) == IF isObject(json) /\ has(json, "asynclog")
  THEN parseBool(at(json, "asynclog"), "asynclog") ELSE Ok(TRUE)

\* lines 432, 447-449
AsynclogName(poolName, json) == IF isObject(json) /\ has(json, "name")
  THEN parseString(at(json, "name"), "name") ELSE Ok(poolName)

\* line 457: throwLogic("PoolRoute {}: {}", poolJson.name, e.what())
PoolRouteMsg(name, msg) == <<"PoolRoute ", name, ": ">> \o msg

RouteFailure(st, msg, log) == [ok |-> FALSE, v |-> nullptr, msg |-> msg, st |-> st, log |-> log]

\* lines 451-455
ComposeAsynclog(st, poolJson, route, needAsynclog, asynclogName) ==
  IF ~needAsynclog.ok THEN RouteFailure(st, PoolRouteMsg(poolJson.name, needAsynclog.msg), <<>>)
  ELSE IF ~asynclogName.ok THEN RouteFailure(st, PoolRouteMsg(poolJson.name, asynclogName.msg), <<>>)
  ELSE IF needAsynclog.v
  THEN [ok |-> TRUE, v |-> createAsynclogRoute(st, route, asynclogName.v).route, msg |-> <<>>,
        st |-> createAsynclogRoute(st, route, asynclogName.v).st, log |-> <<>>]
  ELSE [ok |-> TRUE, v |-> route, msg |-> <<>>, st |-> st, log |-> <<>>]

\* lines 438-449
ComposeShardSplit(st, poolJson, json, split) ==
  IF ~split.ok THEN RouteFailure(st, PoolRouteMsg(poolJson.name, split.msg), <<>>)
  ELSE ComposeAsynclog(st, poolJson, split.v, NeedAsynclog(json), AsynclogName(poolJson.name, json))

\* lines 435-437
ComposeRateLimit(st, poolJson, json, rated) ==
  IF ~rated.ok THEN RouteFailure(st, PoolRouteMsg(poolJson.name, rated.msg), <<>>)
  ELSE ComposeShardSplit(st, poolJson, json, WithShardSplit(rated.v, json))

\* lines 429-430
ComposeHash(st, poolJson, json, hash) ==
  IF ~hash.ok THEN RouteFailure(st, PoolRouteMsg(poolJson.name, hash.msg), <<>>)
  ELSE ComposeRateLimit(st, poolJson, json, WithRateLimit(hash.v, json))

\* lines 396-428
ComposeDestinations(st, poolJson, json, destinations, jhash) ==
  IF ~jhash.ok THEN RouteFailure(st, PoolRouteMsg(poolJson.name, jhash.msg), <<>>)
  ELSE ComposeHash(st, poolJson, json, createHashRoute(jhash.v, destinations))

\* lines 395-458: the try block, over the destinations makePool returned
ComposePoolRoute(st, poolJson, destinations, json) ==
  ComposeDestinations(st, poolJson, json, wrapPoolDestinations(destinations),
                      HashWithWeights(poolJson.json, json))

\* lines 393-458, pool what makePool returned
makePoolRouteOver(poolJson, json, pool) ==
  IF ~pool.ok THEN RouteFailure(pool.st, pool.msg, pool.log)
  ELSE [ComposePoolRoute(pool.st, poolJson, pool.v, json) EXCEPT !.log = pool.log]

\* lines 392-393, poolJson what parsePool returned
makePoolRouteOf(st, json, poolJson) ==
  IF ~poolJson.ok THEN RouteFailure(st, poolJson.msg, <<>>)
  ELSE makePoolRouteOver(poolJson.v, json, makePool(st, poolJson.v))

makePoolRoute(st, json) ==
  IF ~(isObject(json) \/ isString(json))
  THEN RouteFailure(st, <<"PoolRoute should be object or string">>, <<>>)
  ELSE IF isObject(json) /\ ~has(json, "pool")
  THEN RouteFailure(st, <<"PoolRoute: pool not found">>, <<>>)
  ELSE makePoolRouteOf(st, json, parsePool(IF isObject(json) THEN at(json, "pool") ELSE json))

(***************************************************************************)
(* create, lines 499-568.  env holds what the call meets outside the       *)
(* provider: the line the config metadata has for the type (0 when it has  *)
(* none) and the outcome of the null dereference at line 519.              *)
(***************************************************************************)
Result(ok, v, msg, st, log) ==
  [ok |-> ok, crashed |-> FALSE, v |-> v, msg |-> msg, st |-> st, log |-> log, delegated |-> EmptyObj]

\* lines 515-538: the configuration SaltedFailoverRoute hands to makeFailoverRoute
\* the normal route without the hash of lines 526-528
SaltedNormalRouteNoHash(json) ==
  insert(insert(EmptyObj, "type", JStr("PoolRoute")), "pool", at(json, "pool"))

SaltedNormalRoute(json) ==
  LET jPool == at(json, "pool")
      n0 == insert(EmptyObj, "type", JStr("PoolRoute"))
      n1 == insert(n0, "pool", jPool)
  IN IF has(json, "hash") THEN insert(n1, "hash", at(json, "hash")) ELSE n1

SaltedFailoverTarget(json) ==
  LET jPool == at(json, "pool") IN
  IF isString(jPool) THEN JStr("Pool|" \o jPool.v) ELSE jPool

SaltedChildren(json) == JArr(<<SaltedNormalRoute(json), SaltedFailoverTarget(json)>>)

SaltedNewJson(json) == insert(erase(json, "children"), "children", SaltedChildren(json))

\* lines 557-567
UnknownMsg(type, line) == IF line # 0 THEN <<"Unknown RouteHandle: ", type, " line: ", "n">>
  ELSE <<"Unknown RouteHandle: ", type>>

createSaltedFailoverRoute(st, json, env) ==
  IF ~has(json, "pool")
  THEN \* jPool is nullptr and line 519 dereferences it
       IF env.ub = "crash"
       THEN [Result(FALSE, <<>>, <<"SIGSEGV">>, st, <<>>) EXCEPT !.crashed = TRUE]
       ELSE Result(FALSE, <<>>, <<"pool needs to be either a string or an object">>, st, <<>>)
  ELSE IF ~(isString(at(json, "pool")) \/ isObject(at(json, "pool")))
  THEN Result(FALSE, <<>>, <<"pool needs to be either a string or an object">>, st, <<>>)
  ELSE [Result(TRUE, <<makeFailoverRoute(SaltedNewJson(json))>>, <<>>, st, <<>>)
          EXCEPT !.delegated = SaltedNewJson(json)]

\* lines 546-567 with the extra provider asked before the route map
createOtherProviderFirst(st, type, json, env) ==
  IF tryCreate(type, json) # <<>> THEN Result(TRUE, tryCreate(type, json), <<>>, st, <<>>)
  ELSE IF type \in RouteMapTypes
  THEN IF checkedRouteMap(type, json).ok
       THEN Result(TRUE, <<checkedRouteMap(type, json).v>>, <<>>, st, <<>>)
       ELSE Result(FALSE, <<>>, checkedRouteMap(type, json).msg, st, <<>>)
  ELSE Result(FALSE, <<>>, UnknownMsg(type, env.line), st, <<>>)

\* lines 546-567: the checked route map, then the extra provider, then the failure
createOther(st, type, json, env) ==
  IF type \in RouteMapTypes
  THEN LET rh == checkedRouteMap(type, json) IN
       IF rh.ok THEN Result(TRUE, <<rh.v>>, <<>>, st, <<>>)
       ELSE Result(FALSE, <<>>, rh.msg, st, <<>>)
  ELSE LET ret == tryCreate(type, json) IN
       IF ret # <<>> THEN Result(TRUE, ret, <<>>, st, <<>>)
       ELSE Result(FALSE, <<>>, UnknownMsg(type, env.line), st, <<>>)

\* line 506, poolJson what parsePool returned
createPool(st, poolJson) ==
  IF ~poolJson.ok THEN Result(FALSE, <<>>, poolJson.msg, st, <<>>)
  ELSE makePool(st, poolJson.v) @@ [crashed |-> FALSE, delegated |-> EmptyObj]

\* line 543, r what makePoolRoute returned
createPoolRoute(r) == [r EXCEPT !.v = IF r.ok THEN <<r.v>> ELSE <<>>]
                        @@ [crashed |-> FALSE, delegated |-> EmptyObj]

\* line 508, r what makeShadowRoutes returned
createShadowRoute(st, r) ==
  IF r.ok THEN Result(TRUE, r.v, <<>>, st, <<>>) ELSE Result(FALSE, <<>>, r.msg, st, <<>>)

create(st, type, json, env) ==
  IF type = "Pool" THEN createPool(st, parsePool(json))
  ELSE IF type = "ShadowRoute" THEN createShadowRoute(st, makeShadowRoutes(json))
  ELSE IF type = "SaltedFailoverRoute" THEN createSaltedFailoverRoute(st, json, env)
  ELSE IF type = "FailoverRoute"
  THEN [Result(TRUE, <<makeFailoverRoute(json)>>, <<>>, st, <<>>) EXCEPT !.delegated = json]
  ELSE IF type = "PoolRoute" THEN createPoolRoute(makePoolRoute(st, json))
  ELSE createOther(st, type, json, env)

(***************************************************************************)
(* The state machine: one provider, and the calls of create on it.         *)
(***************************************************************************)
EmptyMap == [n \in {} |-> 0]

State == [pools_ |-> pools_, accessPoints_ |-> accessPoints_, destinationMap |-> destinationMap,
          codecManager |-> codecManager, asyncLogRoutes_ |-> asyncLogRoutes_]

NoCall == [type |-> "", json |-> EmptyObj, ok |-> FALSE, crashed |-> FALSE, v |-> <<>>,
           msg |-> <<>>, log |-> <<>>, delegated |-> EmptyObj]

\* the longest list the access-point registry may hold before a further call
MaxAccessPoints == 3

CanCall == /\ ~last.crashed
           /\ \A n \in DOMAIN accessPoints_ : Len(accessPoints_[n]) <= MaxAccessPoints

\* the call done: the state it leaves and what it returned
Returned(type, json, r) ==
  /\ pools_' = r.st.pools_
  /\ accessPoints_' = r.st.accessPoints_
  /\ destinationMap' = r.st.destinationMap
  /\ codecManager' = r.st.codecManager
  /\ asyncLogRoutes_' = r.st.asyncLogRoutes_
  /\ last' = [type |-> type, json |-> json, ok |-> r.ok, crashed |-> r.crashed, v |-> r.v,
              msg |-> r.msg, log |-> r.log, delegated |-> r.delegated]

Call(type, json, env) ==
  /\ CanCall
  /\ Returned(type, json, create(State, type, json, env))
  /\ UNCHANGED <<opts, poolDefs>>

NoEnv == [line |-> 0, ub |-> "crash"]

\* the process options a configuration leaves at their defaults
DefaultOpts == [server_timeout_ms |-> 1, within_cluster_timeout_ms |-> 0,
                cross_cluster_timeout_ms |-> 0, cross_region_timeout_ms |-> 0,
                region |-> "r1", cluster |-> "c1", enable_compression |-> FALSE,
                default_qos_class |-> 0, default_qos_path |-> 0,
                enableSecurityConfig |-> TRUE, initCompressionOk |-> TRUE,
                asynclog_disable |-> FALSE, disable_shard_split_route |-> FALSE,
                wrapDestinations |-> FALSE]

NullRouteJson == JObj([type |-> JStr("NullRoute")])

\* pools of the configurations
PoolMixed == JObj([servers |-> JArr(<<JStr("local:1"), NullRouteJson, JStr("remote:1")>>),
                   weights |-> JArr(<<JInt(1), JInt(1), JInt(1)>>)])
PoolEmpty == JObj([servers |-> JArr(<<>>)])
PoolOne == JObj([servers |-> JArr(<<JStr("remote:1")>>), tags |-> JObj([t1 |-> JStr("x")])])
PoolThriftBad == JObj([servers |-> JArr(<<JStr("remote:1:ascii"), JStr("local:1")>>),
                       protocol |-> JStr("thrift"), security_mech |-> JStr("tls13_fizz")])
PoolInline == JObj([name |-> JStr("C"), servers |-> JArr(<<JStr("local:1")>>)])

InitProvider ==
  /\ pools_ = EmptyMap
  /\ accessPoints_ = EmptyMap
  /\ asyncLogRoutes_ = EmptyMap
  /\ destinationMap = EmptyMap
  /\ codecManager = FALSE
  /\ last = NoCall

Init ==
  /\ InitProvider
  /\ opts \in {[DefaultOpts EXCEPT !.asynclog_disable = a, !.wrapDestinations = w] :
                 a \in BOOLEAN, w \in BOOLEAN}
  /\ poolDefs \in {[A |-> PoolMixed, B |-> PoolEmpty], [A |-> PoolThriftBad, B |-> PoolOne]}

PoolRefs == {JStr("A"), JStr("B"), JStr("Z"), PoolInline, JInt(1)}

CreatePool == \E json \in PoolRefs : Call("Pool", json, NoEnv)

PoolRoutes == {JStr("A"),
               JObj([pool |-> JStr("B"), name |-> JStr("L")]),
               JObj([pool |-> PoolInline, asynclog |-> JBool(FALSE), rates |-> EmptyObj]),
               JObj([pool |-> JStr("Z")]),
               JObj([hash |-> JStr("Ch3")]),
               JInt(1)}

CreatePoolRoute == \E json \in PoolRoutes : Call("PoolRoute", json, NoEnv)

ShadowRoutes == {JObj([children |-> JArr(<<JStr("PoolRoute|A"), JStr("NullRoute")>>)]),
                 JObj([children |-> JArr(<<JStr("PoolRoute|A")>>)]),
                 EmptyObj}

CreateShadowRoute == \E json \in ShadowRoutes : Call("ShadowRoute", json, NoEnv)

Ch3Hash == JObj([hash_func |-> JStr("Ch3")])

SaltedRoutes == {JObj([type |-> JStr("SaltedFailoverRoute"), pool |-> JStr("A"), hash |-> Ch3Hash]),
                 JObj([type |-> JStr("SaltedFailoverRoute"), pool |-> JStr("B"),
                       children |-> JArr(<<JStr("NullRoute")>>), failover_limit |-> JInt(2)]),
                 JObj([type |-> JStr("SaltedFailoverRoute"), pool |-> PoolInline,
                       hash |-> JStr("Crc32"), children |-> JArr(<<>>)]),
                 JObj([type |-> JStr("SaltedFailoverRoute"), pool |-> JInt(1)]),
                 JObj([type |-> JStr("SaltedFailoverRoute"), hash |-> Ch3Hash])}

UbOutcomes == {"crash", "throw"}

CreateSaltedFailoverRoute == \E json \in SaltedRoutes, ub \in UbOutcomes :
  Call("SaltedFailoverRoute", json, [line |-> 0, ub |-> ub])

FailoverRoutes == {JObj([type |-> JStr("FailoverRoute"),
                         children |-> JArr(<<JStr("PoolRoute|A"), JStr("Pool|B")>>)])}

CreateFailoverRoute == \E json \in FailoverRoutes : Call("FailoverRoute", json, NoEnv)

TypeJson(type) == JObj([type |-> JStr(type)])

CreateRegistered == \E type \in RouteMapTypes \ {"PoolRoute"} : Call(type, TypeJson(type), NoEnv)

CreateExtra == \E type \in ExtraTypes \ (RouteMapTypes \cup {"FailoverRoute"}) :
  Call(type, TypeJson(type), NoEnv)

ConfigLines == {0, 7}

CreateUnknown == \E type \in {"Bogus", "pool"}, line \in ConfigLines :
  Call(type, TypeJson(type), [line |-> line, ub |-> "crash"])

Next == \/ CreatePool
        \/ CreatePoolRoute
        \/ CreateShadowRoute
        \/ CreateSaltedFailoverRoute
        \/ CreateFailoverRoute
        \/ CreateRegistered
        \/ CreateExtra
        \/ CreateUnknown

Spec == Init /\ [][Next]_vars

(***************************************************************************)
(* Pool routes: one provider over two pools, and makePoolRoute called with *)
(* every decoration present or absent and with asynclog names that         *)
(* collide.                                                                *)
(***************************************************************************)
\* an object with the fields of base and, for each optional field chosen, its value
WithField(base, k, x) == [f \in DOMAIN base \cup {k} |-> IF f = k THEN x ELSE base[f]]

DecoratedPoolRoutes ==
  {JObj(r) : r \in
     {WithField(b, "asynclog", JBool(FALSE)) : b \in
        {[pool |-> JStr("A")],
         [pool |-> JStr("A"), rates |-> EmptyObj],
         [pool |-> JStr("A"), shard_splits |-> EmptyObj],
         [pool |-> JStr("A"), rates |-> EmptyObj, shard_splits |-> EmptyObj]}}
     \cup {[pool |-> JStr("A")],
           [pool |-> JStr("A"), rates |-> EmptyObj],
           [pool |-> JStr("A"), shard_splits |-> EmptyObj],
           [pool |-> JStr("A"), rates |-> EmptyObj, shard_splits |-> EmptyObj],
           [pool |-> JStr("A"), rates |-> EmptyObj, shard_splits |-> EmptyObj,
            asynclog |-> JBool(TRUE), hash |-> Ch3Hash]}}

NamedPoolRoutes ==
  {JStr("B"),
   JObj([pool |-> JStr("B"), name |-> JStr("L")]),
   JObj([pool |-> JStr("A"), name |-> JStr("L")]),
   JObj([pool |-> JStr("A"), name |-> JStr("B"), hash |-> JStr("Crc32")]),
   JObj([pool |-> JStr("B"), name |-> JStr("L"), asynclog |-> JBool(FALSE)])}

RejectedPoolRoutes ==
  {JObj([pool |-> JStr("A"), rates |-> JInt(1)]),
   JObj([pool |-> JStr("A"), shard_splits |-> JInt(1)]),
   JObj([pool |-> JStr("A"), asynclog |-> JStr("no")]),
   JObj([pool |-> JStr("B"), name |-> JInt(1)]),
   JObj([pool |-> JStr("B"), hash |-> JInt(1)]),
   JObj([pool |-> JStr("B"), hash |-> JStr("NoSuchHash")])}

InitRoute ==
  /\ InitProvider
  /\ opts \in {DefaultOpts,
               [DefaultOpts EXCEPT !.asynclog_disable = TRUE],
               [DefaultOpts EXCEPT !.disable_shard_split_route = TRUE],
               [DefaultOpts EXCEPT !.wrapDestinations = TRUE]}
  /\ poolDefs = [A |-> PoolMixed, B |-> PoolOne]

ComposeRoute == \E json \in DecoratedPoolRoutes \cup NamedPoolRoutes \cup RejectedPoolRoutes :
  Call("PoolRoute", json, NoEnv)

NextRoute == ComposeRoute \/ CreatePool

SpecRoute == InitRoute /\ [][NextRoute]_vars

(***************************************************************************)
(* Pools: one provider and one pool A, whose configuration and process     *)
(* options range over the fields makePool reads.                           *)
(***************************************************************************)
\* the longest servers list of the generated pools
MaxServers == 2

Absent == [t |-> "absent"]

\* the object of the fields of r that are not Absent
Fields(r) == JObj([f \in {g \in DOMAIN r : r[g] # Absent} |-> r[f]])

SeqsUpTo(S, lo, hi) == UNION {[1..k -> S] : k \in lo..hi}

Hostnames(k) == JArr([i \in 1..k |-> JStr("h")])

TimeoutPools ==
  {Fields(r) : r \in [servers : {JArr(<<JStr("local:1")>>)},
                      region : {Absent, JInt(1), JStr(""), JStr("r1"), JStr("r2")},
                      cluster : {Absent, JInt(1), JStr(""), JStr("c1"), JStr("c2")},
                      server_timeout : {Absent, JInt(2), JStr("soon")}]}

TimeoutOpts ==
  {[DefaultOpts EXCEPT !.within_cluster_timeout_ms = w, !.cross_cluster_timeout_ms = c,
                       !.cross_region_timeout_ms = r] : w \in {0, 3}, c \in {0, 4}, r \in {0, 5}}

Endpoints == {JStr("local:1"), JStr("remote:1"), JStr("remote:1:ascii"), JStr("local:1:thrift")}

SecurityPools ==
  {Fields(r) : r \in [servers : {JArr(s) : s \in SeqsUpTo(Endpoints, 1, MaxServers)},
                      protocol : {Absent, JStr("THRIFT")},
                      security_mech : {Absent, JStr("ssl"), JStr("tls13_fizz")},
                      use_ssl : {Absent, JBool(TRUE)},
                      security_mech_within_dc : {Absent, JStr("tls_to_plain"), JStr("ktls12")},
                      security_mech_cross_dc : {Absent, JStr("plain"), JStr("tls13_fizz")}]}

SecurityOpts == {[DefaultOpts EXCEPT !.enableSecurityConfig = e] : e \in BOOLEAN}

ServerEntries == {JStr("local:1"), JStr("nowhere"), NullRouteJson, TypeJson("Foo"), JInt(1)}

ServersPools ==
  {Fields(r) : r \in [servers : {Absent, JInt(1)}
                                  \cup {JArr(s) : s \in SeqsUpTo(ServerEntries, 0, MaxServers)},
                      hostnames : {Absent, JStr("h")} \cup {Hostnames(k) : k \in 0..(MaxServers + 1)},
                      protocol : {Absent, JStr("thrift")},
                      enable_compression : {Absent, JBool(TRUE)},
                      port_override : {Absent, JInt(2)}]}

ServersOpts == {[DefaultOpts EXCEPT !.initCompressionOk = c] : c \in BOOLEAN}

TwoServers == JArr(<<JStr("local:1"), JStr("remote:1")>>)

OtherPools ==
  {JObj([servers |-> TwoServers, qos |-> JInt(1)]),
   JObj([servers |-> TwoServers, qos |-> JObj([class |-> JInt(9)])]),
   JObj([servers |-> TwoServers, qos |-> JObj([class |-> JInt(2), path |-> JInt(3)])]),
   JObj([servers |-> TwoServers, connect_timeout |-> JInt(1), server_timeout |-> JInt(2)]),
   JObj([servers |-> TwoServers, protocol |-> JStr("Caret"), keep_routing_prefix |-> JBool(TRUE)]),
   JObj([servers |-> TwoServers, protocol |-> JStr("binary")]),
   JObj([servers |-> TwoServers, protocol |-> JInt(1)]),
   JObj([servers |-> TwoServers, security_mech |-> JStr("rot13")]),
   JObj([servers |-> TwoServers, use_ssl |-> JBool(FALSE), port_override_within_dc |-> JInt(3),
         port_override_cross_dc |-> JInt(4)]),
   JObj([servers |-> JArr(<<JStr("local:1"), NullRouteJson, JStr("remote:1")>>),
         hostnames |-> Hostnames(2)])}

InitPool ==
  /\ InitProvider
  /\ \/ opts \in TimeoutOpts /\ poolDefs \in {[A |-> p] : p \in TimeoutPools}
     \/ opts \in SecurityOpts /\ poolDefs \in {[A |-> p] : p \in SecurityPools}
     \/ opts \in ServersOpts /\ poolDefs \in {[A |-> p] : p \in ServersPools}
     \/ opts = DefaultOpts /\ poolDefs \in {[A |-> p] : p \in OtherPools}

ResolvePool == Call("Pool", JStr("A"), NoEnv)

NextPool == ResolvePool

SpecPool == InitPool /\ [][NextPool]_vars

(***************************************************************************)
(* Properties of create over any configuration (Spec).                     *)
(***************************************************************************)
BuiltInTypes == {"Pool", "ShadowRoute", "SaltedFailoverRoute", "FailoverRoute", "PoolRoute"}

\* the pool a call of create resolves, when it gets as far as makePool
CalledPool(type, json) ==
  IF type = "Pool" THEN parsePool(json)
  ELSE IF type = "PoolRoute" /\ isString(json) THEN parsePool(json)
  ELSE IF type = "PoolRoute" /\ isObject(json) /\ has(json, "pool") THEN parsePool(at(json, "pool"))
  ELSE Err(<<>>)

\* the hash route at the bottom of the decorations of a pool route
RECURSIVE HashOf(_)
HashOf(route) == IF route.k = "HashRoute" THEN route ELSE HashOf(route.child)

\* C1: once a pool name is cached, a call that resolves it (create "Pool" or
\* makePoolRoute) returns the cached destinations, same length and elements in
\* the same order, and does nothing else: it reads no configuration, creates
\* no access point and no destination; and no call changes or removes the
\* cached destinations of any name.
C1_CachedPoolReturned ==
  [][/\ \A n \in DOMAIN pools_ : n \in DOMAIN pools_' /\ pools_'[n] = pools_[n]
     /\ (CalledPool(last'.type, last'.json).ok
           /\ CalledPool(last'.type, last'.json).v.name \in DOMAIN pools_)
        => /\ last'.log = <<>>
           /\ accessPoints_' = accessPoints_
           /\ destinationMap' = destinationMap
           /\ last'.type = "Pool" =>
                last'.ok /\ last'.v = pools_[CalledPool(last'.type, last'.json).v.name]
           /\ (last'.type = "PoolRoute" /\ last'.ok) =>
                HashOf(last'.v[1]).children =
                  wrapPoolDestinations(pools_[CalledPool(last'.type, last'.json).v.name])]_vars

\* a call of create "Pool" answered from the cache with a pool that has destinations
C1_Witness ==
  /\ last.type = "Pool" /\ last.ok /\ last.log = <<>> /\ last.v # <<>>
  /\ CalledPool(last.type, last.json).v.name \in DOMAIN pools_
  /\ accessPoints_ # EmptyMap

ServersOf(json) == at(parsePool(json).v.json, "servers").v

C7_SaltedRewrite ==
  (last.type = "SaltedFailoverRoute" /\ last.ok) =>
    /\ DOMAIN last.delegated.v = DOMAIN last.json.v \cup {"children"}
    /\ \A f \in DOMAIN last.json.v \ {"children"} : last.delegated.v[f] = last.json.v[f]
    /\ isArray(at(last.delegated, "children")) /\ Len(at(last.delegated, "children").v) = 2
    /\ at(last.delegated, "children").v[1] =
         JObj([f \in {"type", "pool"} \cup ({"hash"} \cap DOMAIN last.json.v) |->
                 IF f = "type" THEN JStr("PoolRoute") ELSE last.json.v[f]])
    /\ at(last.delegated, "children").v[2] =
         (IF isString(at(last.json, "pool")) THEN JStr("Pool|" \o at(last.json, "pool").v)
          ELSE at(last.json, "pool"))
    /\ isObject(at(last.json, "pool")) => at(last.delegated, "children").v[2] = at(last.json, "pool")
    /\ last.v = <<makeFailoverRoute(last.delegated)>>

\* a SaltedFailoverRoute with a hash and with children of its own was rewritten
C7_Witness ==
  /\ last.type = "SaltedFailoverRoute" /\ last.ok
  /\ has(last.json, "hash") /\ has(last.json, "children")
  /\ at(last.delegated, "children") # at(last.json, "children")

\* C9: a type that is not built in is looked up in the route map first and in
\* the extra provider only when the route map has no entry for it; a type
\* neither knows fails with a message that holds the type; and a built-in
\* type is never answered by the route map or the extra provider.
C9_DispatchOrder ==
  (last.type # "") =>
    /\ (last.type \in BuiltInTypes \cap RouteMapTypes /\ last.ok) =>
         last.v # <<factoryFunc(last.type, last.json)>>
    /\ (last.type \in BuiltInTypes \cap ExtraTypes /\ last.ok) =>
         last.v # tryCreate(last.type, last.json)
    /\ (last.type \in RouteMapTypes \ BuiltInTypes) =>
         IF factoryFunc(last.type, last.json) # nullptr
         THEN last.ok /\ last.v = <<factoryFunc(last.type, last.json)>>
         ELSE ~last.ok /\ last.type \in Range(last.msg)
    /\ (last.type \notin RouteMapTypes \cup BuiltInTypes /\ tryCreate(last.type, last.json) # <<>>) =>
         last.ok /\ last.v = tryCreate(last.type, last.json)
    /\ (last.type \notin RouteMapTypes \cup BuiltInTypes /\ tryCreate(last.type, last.json) = <<>>) =>
         ~last.ok /\ last.type \in Range(last.msg)

\* create "Bogus", a type no stage knows, failed with the type in the message
C9_Witness == last.type = "Bogus" /\ ~last.ok /\ last.msg = <<"Unknown RouteHandle: ", "Bogus">>

(***************************************************************************)
(* Properties of makePoolRoute (SpecRoute).                                *)
(***************************************************************************)
\* the kinds of the handles of a pool route, from the outermost down to the
\* hash route
RECURSIVE Layers(_)
Layers(route) == IF route.k = "HashRoute" THEN <<"HashRoute">> ELSE <<route.k>> \o Layers(route.child)

\* asynclog is not explicitly false in the configuration of a pool route
AsynclogWanted(json) == ~(isObject(json) /\ has(json, "asynclog") /\ at(json, "asynclog") = JBool(FALSE))

\* the nesting a configuration asks for, async logging decorating when logged
Nesting(json, logged) ==
  (IF logged THEN <<"AsynclogRoute">> ELSE <<>>)
  \o (IF isObject(json) /\ has(json, "shard_splits") /\ ~opts.disable_shard_split_route
      THEN <<"ShardSplitRoute">> ELSE <<>>)
  \o (IF isObject(json) /\ has(json, "rates") THEN <<"RateLimitRoute">> ELSE <<>>)
  \o <<"HashRoute">>

\* the hash route of the last pool route stands on the destinations of its pool
HashOverPool ==
  HashOf(last.v[1]).children = wrapPoolDestinations(pools_[CalledPool(last.type, last.json).v.name])

\* C3 as stated: an accepted pool route is the hash route over the pool's
\* destinations, inside the rate limit iff rates is present, inside the shard
\* split iff shard_splits is present and shard splits are not disabled,
\* inside the async-log decoration unless asynclog is explicitly false.
C3_NestingAsStated ==
  (last.type = "PoolRoute" /\ last.ok) =>
    /\ Layers(last.v[1]) = Nesting(last.json, AsynclogWanted(last.json))
    /\ HashOverPool

\* C3 amended: the same nesting, where the async-log decoration is the
\* outermost handle iff asynclog is not explicitly false and the process
\* option asynclog_disable is off; with asynclog_disable on the handle is
\* returned without that decoration.
C3_FixedNesting ==
  (last.type = "PoolRoute" /\ last.ok) =>
    /\ Layers(last.v[1]) = Nesting(last.json, AsynclogWanted(last.json) /\ ~opts.asynclog_disable)
    /\ HashOverPool
    /\ (AsynclogWanted(last.json) /\ ~opts.asynclog_disable) =>
         last.v[1].asynclogName = (IF isObject(last.json) /\ has(last.json, "name")
                                   THEN at(last.json, "name").v
                                   ELSE CalledPool(last.type, last.json).v.name)

\* a pool route with rates, shard_splits and async logging came back with all
\* four handles nested
C3_Witness ==
  /\ last.type = "PoolRoute" /\ last.ok
  /\ isObject(last.json) /\ has(last.json, "rates") /\ has(last.json, "shard_splits")
  /\ Layers(last.v[1]) = <<"AsynclogRoute", "ShardSplitRoute", "RateLimitRoute", "HashRoute">>

\* the name a pool route is logged under: its name if given, else the pool's
LogKey(json) == IF isObject(json) /\ has(json, "name") THEN at(json, "name").v
  ELSE CalledPool("PoolRoute", json).v.name

\* C10 as stated: after a pool route was composed with async logging not
\* explicitly false, the registry maps its name to the handle of that call
\* (the last writer wins).
C10_LastWriterWins ==
  (last.type = "PoolRoute" /\ last.ok /\ AsynclogWanted(last.json)) =>
    /\ LogKey(last.json) \in DOMAIN asyncLogRoutes_
    /\ asyncLogRoutes_[LogKey(last.json)] = last.v[1]

\* C10 amended: the registry keeps the handle of the first pool route
\* composed under a name with async logging not explicitly false: no call
\* changes or removes an entry, a pool route composed under a name that has
\* no entry yet adds its handle under that name, and nothing else is added; a
\* route composed with asynclog false adds and changes nothing.
C10_FirstWriterWins ==
  [][/\ \A n \in DOMAIN asyncLogRoutes_ :
          n \in DOMAIN asyncLogRoutes_' /\ asyncLogRoutes_'[n] = asyncLogRoutes_[n]
     /\ \A n \in DOMAIN asyncLogRoutes_' \ DOMAIN asyncLogRoutes_ :
          /\ last'.type = "PoolRoute" /\ last'.ok /\ AsynclogWanted(last'.json)
          /\ n = LogKey(last'.json)
          /\ asyncLogRoutes_'[n] = last'.v[1]
     /\ (last'.type = "PoolRoute" /\ last'.ok /\ AsynclogWanted(last'.json)) =>
          LogKey(last'.json) \in DOMAIN asyncLogRoutes_'
     /\ (last'.type = "PoolRoute" /\ ~AsynclogWanted(last'.json)) =>
          asyncLogRoutes_' = asyncLogRoutes_]_vars

\* a second pool route was composed under a name the registry already had,
\* and the registry still holds the handle of the first
C10_Witness ==
  /\ last.type = "PoolRoute" /\ last.ok /\ AsynclogWanted(last.json)
  /\ LogKey(last.json) \in DOMAIN asyncLogRoutes_
  /\ asyncLogRoutes_[LogKey(last.json)] # last.v[1]

(***************************************************************************)
(* Properties of makePool (SpecPool): the pool resolved is A.              *)
(***************************************************************************)
PoolA == poolDefs["A"]

\* the kinds of the steps the last call logged
Steps == {last.log[i][1] : i \in 1..Len(last.log)}

\* the steps a call logs for a server, and those the last call logged for
\* server i (counted from 0)
ServerSteps == {"factory.create", "AccessPoint::create", "accessPoints_.push_back", "createDestinationRoute"}

StepsOf(i) == {last.log[n][1] : n \in {m \in 1..Len(last.log) : last.log[m][3] = i}} \cap ServerSteps

\* the timeout a pool starts from: its server_timeout, else the default
StartTimeout(json) == IF has(json, "server_timeout") THEN at(json, "server_timeout").v
  ELSE opts.server_timeout_ms

\* the one tier of a pool, "none" unless region and cluster are both strings
\* that are not empty
Tier(json) ==
  IF ~(has(json, "region") /\ has(json, "cluster")) THEN "none"
  ELSE IF ~(isString(at(json, "region")) /\ isString(at(json, "cluster"))) THEN "none"
  ELSE IF at(json, "region").v = "" \/ at(json, "cluster").v = "" THEN "none"
  ELSE IF at(json, "region").v # opts.region THEN "cross_region"
  ELSE IF at(json, "cluster").v # opts.cluster THEN "cross_cluster"
  ELSE "within_cluster"

TierValue(tier) == CASE tier = "within_cluster" -> opts.within_cluster_timeout_ms
  [] tier = "cross_cluster" -> opts.cross_cluster_timeout_ms
  [] tier = "cross_region" -> opts.cross_region_timeout_ms
  [] OTHER -> 0

\* C4: every destination of a resolved pool has the timeout of the one tier
\* chosen by region and cluster when that tier's value is not zero, and else
\* the pool's server_timeout or the default; a tier of value zero never gives
\* way to the value of another tier.
C4_TierTimeout ==
  (last.type = "Pool" /\ last.ok) =>
    \A i \in 1..Len(last.v) : last.v[i].k = "DestinationRoute" =>
      last.v[i].timeout = (IF TierValue(Tier(PoolA)) # 0 THEN TierValue(Tier(PoolA))
                           ELSE StartTimeout(PoolA))

\* a pool of the proxy's region and another cluster, the cross-cluster value
\* zero and the other two not: its destination kept the starting timeout
C4_Witness ==
  /\ last.type = "Pool" /\ last.ok /\ Len(last.v) = 1
  /\ Tier(PoolA) = "cross_cluster"
  /\ opts.cross_cluster_timeout_ms = 0
  /\ opts.within_cluster_timeout_ms # 0 /\ opts.cross_region_timeout_ms # 0
  /\ has(PoolA, "server_timeout")
  /\ last.v[1].timeout = at(PoolA, "server_timeout").v

\* the servers of a pool are all endpoint strings, and the last call came to them
AtEndpoints ==
  /\ last.type = "Pool" /\ "AccessPoint::create" \in Steps
  /\ \A i \in 1..Len(at(PoolA, "servers").v) :
       isString(at(PoolA, "servers").v[i]) /\ at(PoolA, "servers").v[i] \in Endpoints

\* the protocol the pool gives its servers
PoolProtocol == IF has(PoolA, "protocol") /\ at(PoolA, "protocol").v \in {"thrift", "THRIFT"}
  THEN "mc_thrift_protocol" ELSE "mc_ascii_protocol"

\* the protocol of the access point of server i: the one its string names, else the pool's
ServerProtocol(i) ==
  CASE at(PoolA, "servers").v[i].v = "remote:1:ascii" -> "mc_ascii_protocol"
    [] at(PoolA, "servers").v[i].v = "local:1:thrift" -> "mc_thrift_protocol"
    [] OTHER -> PoolProtocol

MechNamed(str) == CASE str = "plain" -> "NONE"
  [] str = "ssl" -> "TLS"
  [] str = "tls_to_plain" -> "TLS_TO_PLAINTEXT"
  [] str = "tls13_fizz" -> "TLS13_FIZZ"
  [] str = "ktls12" -> "KTLS12"

\* the mechanism of server i: the base mechanism, replaced by the within-DC
\* override for a local host and by the cross-DC override for any other
ServerMech(i) ==
  IF ~opts.enableSecurityConfig THEN "NONE"
  ELSE IF at(PoolA, "servers").v[i].v \in {"local:1", "local:1:thrift"} /\ has(PoolA, "security_mech_within_dc")
  THEN MechNamed(at(PoolA, "security_mech_within_dc").v)
  ELSE IF at(PoolA, "servers").v[i].v \in {"remote:1", "remote:1:ascii"} /\ has(PoolA, "security_mech_cross_dc")
  THEN MechNamed(at(PoolA, "security_mech_cross_dc").v)
  ELSE IF has(PoolA, "security_mech") THEN MechNamed(at(PoolA, "security_mech").v)
  ELSE IF has(PoolA, "use_ssl") /\ at(PoolA, "use_ssl").v THEN "TLS"
  ELSE "NONE"

ThriftMessage == "Security mechanism must be 'plain', 'tls' or 'tls_to_plain' for ThriftTransport, got "

\* server i is refused when thrift is the protocol by
Refused(i, byPool) ==
  /\ (IF byPool THEN PoolProtocol ELSE ServerProtocol(i)) = "mc_thrift_protocol"
  /\ ServerMech(i) \notin {"NONE", "TLS", "TLS_TO_PLAINTEXT"}

\* the thrift check as decided by the pool's protocol (byPool) or by the
\* protocol of each access point
ThriftChecked(byPool) ==
  AtEndpoints =>
    /\ last.ok <=> \A i \in 1..Len(at(PoolA, "servers").v) : ~Refused(i, byPool)
    /\ ~last.ok => ThriftMessage \in Range(last.msg)
    /\ last.ok => \A i \in 1..Len(last.v) :
         /\ last.v[i].pdstn.mech = ServerMech(i)
         /\ last.v[i].transport =
              (IF (IF byPool THEN PoolProtocol ELSE ServerProtocol(i)) = "mc_thrift_protocol"
               THEN "ThriftTransport" ELSE "AsyncMcClient")

\* C5 as stated: a pool whose protocol is thrift fails when the mechanism of
\* some server, after the within-DC or cross-DC override, is not none, TLS or
\* TLS-to-plaintext, and else gives every server a thrift destination; a pool
\* of another protocol never fails so and gives the default transport.
C5_ThriftByPoolProtocol == ThriftChecked(TRUE)

\* C5 amended: the check and the transport go by the protocol of each
\* server's access point, which is the pool's protocol unless the endpoint
\* string names its own.
C5_ThriftByAccessPoint == ThriftChecked(FALSE)

\* a thrift endpoint in a pool of the default protocol was refused for its mechanism
C5_Witness ==
  /\ AtEndpoints /\ ~last.ok /\ ThriftMessage \in Range(last.msg)
  /\ PoolProtocol = "mc_ascii_protocol"
  /\ \E i \in 1..Len(at(PoolA, "servers").v) : Refused(i, FALSE)

\* servers is missing or no array, or hostnames is no array or of another length
ServersRejected(json) ==
  \/ ~has(json, "servers")
  \/ ~isArray(at(json, "servers"))
  \/ /\ has(json, "hostnames")
     /\ \/ ~isArray(at(json, "hostnames"))
        \/ Len(at(json, "hostnames").v) # Len(at(json, "servers").v)

\* C6: a pool whose servers or hostnames are rejected fails before any server
\* is processed: no nested route is built, no access point created or
\* registered, no destination created, and the pool is not cached.
C6_RejectedBeforeServers ==
  (last.type = "Pool" /\ ServersRejected(PoolA)) =>
    /\ ~last.ok
    /\ Steps \subseteq {"read json", "MC_LOG_FAILURE region", "MC_LOG_FAILURE cluster"}
    /\ "A" \notin DOMAIN pools_
    /\ "A" \notin DOMAIN accessPoints_
    /\ destinationMap = EmptyMap

\* a pool of three servers and two hostnames was rejected for the sizes
C6_Witness ==
  /\ last.type = "Pool" /\ ~last.ok
  /\ has(PoolA, "hostnames") /\ has(PoolA, "servers")
  /\ isArray(at(PoolA, "hostnames")) /\ isArray(at(PoolA, "servers"))
  /\ Len(at(PoolA, "servers").v) = 3 /\ Len(at(PoolA, "hostnames").v) = 2
  /\ "hostnames expected to be of the same size as servers" \in Range(last.msg)

\* the entries of servers that are strings
StringServers(json) == {i \in 1..Len(at(json, "servers").v) : isString(at(json, "servers").v[i])}

\* C8: a resolved pool has one handle for each entry of servers, in their
\* order: for an object the handle the factory built for it, for a string the
\* destination with that index in the pool; for an object no access point is
\* created or registered and no destination obtained, and its handle does not
\* depend on the settings of the pool.
C8_MixedServers ==
  (last.type = "Pool" /\ last.ok /\ "pools_.emplace" \in Steps) =>
    /\ Len(last.v) = Len(at(PoolA, "servers").v)
    /\ \A i \in 1..Len(last.v) :
         IF isObject(at(PoolA, "servers").v[i])
         THEN /\ last.v[i] = factoryCreate(at(PoolA, "servers").v[i]).v
              /\ StepsOf(i - 1) = {"factory.create"}
         ELSE /\ last.v[i].k = "DestinationRoute"
              /\ last.v[i].indexInPool = i - 1
              /\ last.v[i].poolName = "A"
              /\ StepsOf(i - 1) = {"AccessPoint::create", "accessPoints_.push_back", "createDestinationRoute"}
    /\ IF StringServers(PoolA) = {} THEN "A" \notin DOMAIN accessPoints_ /\ destinationMap = EmptyMap
       ELSE /\ Len(accessPoints_["A"]) = Cardinality(StringServers(PoolA))
            /\ \A n \in 1..Len(accessPoints_["A"]) :
                 \E i \in StringServers(PoolA) : last.v[i].pdstn = accessPoints_["A"][n]
            /\ Cardinality(DOMAIN destinationMap) <= Cardinality(StringServers(PoolA))

\* a pool of an endpoint and then an object, with settings the object does not take
C8_Witness ==
  /\ last.type = "Pool" /\ last.ok /\ Len(last.v) = 2
  /\ isString(at(PoolA, "servers").v[1]) /\ isObject(at(PoolA, "servers").v[2])
  /\ has(PoolA, "protocol") /\ has(PoolA, "port_override")
  /\ last.v[1].pdstn.protocol = "mc_thrift_protocol"
  /\ last.v[2] = [k |-> "NullRoute", json |-> NullRouteJson, by |-> "routeMap"]
  /\ Len(accessPoints_["A"]) = 1

(***************************************************************************)
(* A makePool that throws (SpecPool).                                      *)
(***************************************************************************)
IsDestination(handle) == handle.k = "DestinationRoute"

\* the access points of the destinations of a pool, in their order
AccessPointsOf(destinations) ==
  [i \in 1..Len(SelectSeq(destinations, IsDestination)) |->
     SelectSeq(destinations, IsDestination)[i].pdstn]

\* C11: a makePool that fails leaves the provider as it was: the pool is not
\* cached and no access point of it stays registered, so that at any time the
\* access points registered under a name are those of the destinations cached
\* under that name, in their order.
C11_FailedPoolLeavesNothing ==
  /\ (last.type = "Pool" /\ ~last.ok /\ CalledPool(last.type, last.json).ok) =>
       /\ CalledPool(last.type, last.json).v.name \notin DOMAIN pools_
       /\ CalledPool(last.type, last.json).v.name \notin DOMAIN accessPoints_
  /\ \A n \in DOMAIN accessPoints_ :
       n \in DOMAIN pools_ /\ accessPoints_[n] = AccessPointsOf(pools_[n])

====
